---- MODULE Spec2Model ----
(***************************************************************************)
(* Guitar tuner (aashishbishow/Guitar-Tuner).                              *)
(*                                                                         *)
(* The repository holds two executables:                                   *)
(*   src/Linux/extend.cpp  GuitarTuner: PortAudio callback -> RMS gate ->  *)
(*                         FFTAnalyzer::analyze -> find_closest_note ->    *)
(*                         TunerDisplay::update, run loop polling getch.   *)
(*   src/tuner.cpp         process_audio_input -> compute_fft ->           *)
(*                         closest_note_frequency -> print, main waiting   *)
(*                         for Enter.                                      *)
(*                                                                         *)
(* Numbers.  A double is a fixed-point integer in units of 1/One, or one   *)
(* of the IEEE specials NaN, +Inf, -Inf (record [k, v]).  Frequencies are  *)
(* in hundredths of a hertz (cHz).  The transform length is scaled from    *)
(* 4096 to 8 and the callback block from 2048 to 4, which keeps the        *)
(* relation BUFFER_SIZE = window_size / 2 of the source and makes the      *)
(* loop 1 <= i < window_size/2 - 1 non-empty.                              *)
(***************************************************************************)
EXTENDS Integers, Sequences, FiniteSets, TLC

VARIABLES
    program,        \* which entry point runs: "extend", "tuner", "analyzer", "mapper"
    pc,             \* position of the main thread (run() / main())
    paInitialized,  \* Pa_Initialize succeeded and Pa_Terminate not yet called
    streamOpen,     \* Pa_OpenDefaultStream succeeded and Pa_CloseStream not yet called
    streamActive,   \* the stream delivers callbacks
    running,        \* GuitarTuner::running
    exitCode,       \* -1 while the process runs, then main's return value
    paLog,          \* the PortAudio calls that succeeded, in order
    cbPc,           \* position of the audio callback
    calls,          \* callbacks delivered / direct calls made so far
    pushed,         \* every sample delivered to the callback, in order
    emitted,        \* the buffers the callbacks handed on, in order
    cycle,          \* what the last callback did (gate, estimator, display)
    display,        \* what the display shows
    displayWrites,  \* number of display write statements executed
    window,         \* FFTAnalyzer::window
    output,         \* FFTAnalyzer::output (bins 0..window_size/2)
    result,         \* what the last analyze / mapper call returned
    oobRead         \* the last analyze call read a bin outside 0..window_size/2

vars == <<program, pc, paInitialized, streamOpen, streamActive, running, exitCode,
          paLog, cbPc, calls, pushed, emitted, cycle, display, displayWrites,
          window, output, result, oobRead>>

-----------------------------------------------------------------------------
(* Program constants *)

\* FFTAnalyzer::window_size (4096 in the source, scaled)
window_size == 8
BufferSizeIsWindowSize == window_size

\* GuitarTuner::BUFFER_SIZE (2048 in the source, scaled: window_size / 2)
BUFFER_SIZE == 4
\* the sample rate both programs hardcode, in Hz
SAMPLE_RATE == 44100
\* the fixed-point representation of 1.0
One == 100 * 100
\* GuitarTuner::MIN_AMPLITUDE = 0.01, in units of 1/One
MIN_AMPLITUDE == 100

(* Bounds of the model *)
MaxCallbacks == 2
MaxCalls == 3

-----------------------------------------------------------------------------
(* Doubles: finite fixed-point values and the IEEE specials *)

Fin(n) == [k |-> "fin", v |-> n]
NaN == [k |-> "nan", v |-> 0]
PInf == [k |-> "pinf", v |-> 0]
NInf == [k |-> "ninf", v |-> 0]
IsFin(x) == x.k = "fin"

Abs(n) == IF n < 0 THEN -n ELSE n
Sign(n) == IF n < 0 THEN -1 ELSE IF n > 0 THEN 1 ELSE 0

\* truncating division, as for C++ doubles rounded toward zero to the grid
TDiv(a, b) == Sign(a) * Sign(b) * (Abs(a) \div Abs(b))

\* (x * a) / b without forming x * a (x may be large)
MulDiv(x, a, b) ==
    Sign(x) * ((Abs(x) \div b) * a + ((Abs(x) % b) * a) \div b)

RECURSIVE SqrtSearch(_, _, _)
SqrtSearch(x, lo, hi) ==
    IF lo >= hi THEN lo
    ELSE LET mid == (lo + hi + 1) \div 2
         IN  IF mid * mid <= x THEN SqrtSearch(x, mid, hi)
             ELSE SqrtSearch(x, lo, mid - 1)

\* std::sqrt on a non-negative integer, rounded down
ISqrt(x) == SqrtSearch(x, 0, 46340)

DNeg(x) ==
    CASE x.k = "fin" -> Fin(-x.v)
      [] x.k = "pinf" -> NInf
      [] x.k = "ninf" -> PInf
      [] OTHER -> NaN

\* IEEE addition
DAdd(x, y) ==
    CASE x.k = "nan" \/ y.k = "nan" -> NaN
      [] x.k = "fin" /\ y.k = "fin" -> Fin(x.v + y.v)
      [] x.k = "fin" -> y
      [] y.k = "fin" -> x
      [] x.k = y.k -> x
      [] OTHER -> NaN

DSub(x, y) == DAdd(x, DNeg(y))

\* std::abs on a double
DAbs(x) ==
    CASE x.k = "fin" -> Fin(Abs(x.v))
      [] x.k = "nan" -> NaN
      [] OTHER -> PInf

\* IEEE division x / y (both in units of 1/One, so is the quotient)
DDiv(x, y) ==
    CASE x.k = "nan" \/ y.k = "nan" -> NaN
      [] x.k = "fin" /\ y.k = "fin" ->
            IF y.v = 0
            THEN (IF x.v = 0 THEN NaN ELSE IF x.v > 0 THEN PInf ELSE NInf)
            ELSE Fin(Sign(x.v) * Sign(y.v) * MulDiv(Abs(x.v), One, Abs(y.v)))
      [] x.k = "fin" -> Fin(0)
      [] y.k = "fin" ->
            IF (x.k = "pinf") = (y.v >= 0) THEN PInf ELSE NInf
      [] OTHER -> NaN

\* x * c for a finite non-negative constant c given as the fraction num/den
DScale(x, num, den) ==
    CASE x.k = "fin" -> Fin(MulDiv(x.v, num, den))
      [] OTHER -> x

-----------------------------------------------------------------------------
(* Logarithms *)

RECURSIVE FloorLog2(_)
FloorLog2(n) == IF n <= 1 THEN 0 ELSE 1 + FloorLog2(n \div 2)

RECURSIVE Pow2(_)
Pow2(e) == IF e <= 0 THEN 1 ELSE 2 * Pow2(e - 1)

\* fractional bits of log2 of the mantissa m (Q14, in [2^14, 2^15)), by squaring
RECURSIVE Log2Frac(_, _, _)
Log2Frac(m, bits, acc) ==
    IF bits = 0 THEN acc
    ELSE LET sq == (m * m) \div Pow2(14)
         IN  IF sq >= Pow2(15)
             THEN Log2Frac(sq \div 2, bits - 1, 2 * acc + 1)
             ELSE Log2Frac(sq, bits - 1, 2 * acc)

\* log2 of the positive integer n, in units of 1/4096
Log2Q12(n) ==
    LET e == FloorLog2(n)
        m == IF e >= 14 THEN n \div Pow2(e - 14) ELSE n * Pow2(14 - e)
    IN  e * 4096 + Log2Frac(m, 12, 0)

\* std::log of a non-negative double: ln(v/One) in units of 1/One; log(0) = -inf
DLog(x) ==
    CASE x.k = "nan" -> NaN
      [] x.k = "pinf" -> PInf
      [] x.k = "ninf" -> NaN
      [] x.v < 0 -> NaN
      [] x.v = 0 -> NInf
      [] OTHER -> Fin(TDiv((Log2Q12(x.v) - Log2Q12(One)) * 6931, 4096))

-----------------------------------------------------------------------------
(* FFTW: the real-to-complex transform of length Len(x), Len(x) in {2, 4, 8} *)

\* cos(2 pi j / 8) and sin(2 pi j / 8), j = 0..7, in units of 1/One
Cos8 == <<10000, 7071, 0, -7071, -10000, -7071, 0, 7071>>
Sin8 == <<0, 7071, 10000, 7071, 0, -7071, -10000, -7071>>

Twiddle(table, k, n, len) == table[((k * n * (8 \div len)) % 8) + 1]

RECURSIVE DftSum(_, _, _, _)
DftSum(x, table, k, n) ==
    IF n = Len(x) THEN 0
    ELSE x[n + 1] * Twiddle(table, k, n, Len(x)) + DftSum(x, table, k, n + 1)

\* fftw_execute on a r2c plan: bins 0..Len(x)/2, bin k at index k + 1
Dft(x) ==
    [b \in 1..(Len(x) \div 2 + 1) |->
        [re |-> TDiv(DftSum(x, Cos8, b - 1, 0), One),
         im |-> TDiv(-DftSum(x, Sin8, b - 1, 0), One)]]

ZeroSpectrum == [b \in 1..(window_size \div 2 + 1) |-> [re |-> 0, im |-> 0]]

\* std::hypot(re, im) / sqrt(re*re + im*im)
Magnitude(bin) == ISqrt(bin.re * bin.re + bin.im * bin.im)

-----------------------------------------------------------------------------
(* FFTAnalyzer (extend.cpp) *)

\* the Hann coefficients the constructor computes,
\* 0.5 * (1 - cos(2 pi i / (window_size - 1))), i = 0..window_size-1
HannWindow == <<0, 1883, 6113, 9505, 9505, 6113, 1883, 0>>

\* the loop "window[i] = audio_data[i] * window[i]"
ApplyWindow(audio_data, win) ==
    [i \in 1..window_size |-> TDiv(audio_data[i] * win[i], One)]

\* the loop over i = from .. last that keeps the first strictly largest magnitude
RECURSIVE PeakLoop(_, _, _, _, _)
PeakLoop(out, i, last, max_magnitude, max_bin) ==
    IF i > last THEN max_bin
    ELSE IF Magnitude(out[i + 1]) > max_magnitude
         THEN PeakLoop(out, i + 1, last, Magnitude(out[i + 1]), i)
         ELSE PeakLoop(out, i + 1, last, max_magnitude, max_bin)

\* for (i = 1; i < window_size/2 - 1; ++i)
MaxBin(out) == PeakLoop(out, 1, window_size \div 2 - 2, 0, 0)

\* what the bytes before the output array may hold when output[-1] is read
GarbageDoubles == {Fin(0), Fin(One), Fin(-3 * One), NaN}

\* output[idx][0]; an index outside the array reads whatever lies there
ReadRe(out, idx, garbage) ==
    IF idx \in 0..(window_size \div 2) THEN Fin(out[idx + 1].re) ELSE garbage

\* peak_bin = max_bin + 0.5 * (alpha - gamma) / (alpha - 2*beta + gamma)
PeakBin(out, max_bin, garbage) ==
    LET alpha == DLog(DAbs(ReadRe(out, max_bin - 1, garbage)))
        beta  == DLog(DAbs(ReadRe(out, max_bin, garbage)))
        gamma == DLog(DAbs(ReadRe(out, max_bin + 1, garbage)))
        num   == DScale(DSub(alpha, gamma), 1, 2)
        den   == DAdd(DSub(alpha, DScale(beta, 2, 1)), gamma)
    IN  DAdd(Fin(max_bin * One), DDiv(num, den))

\* peak_bin * 44100.0 / window_size, converted to cHz
BinToFrequency(peak_bin) ==
    DScale(peak_bin, (SAMPLE_RATE * 100) \div One, window_size)

\* FFTAnalyzer::analyze: the Result it returns and the members it leaves behind
Analyze(audio_data, win, out, garbage) ==
    IF Len(audio_data) # window_size
    THEN [ok |-> FALSE, error |-> "Invalid audio buffer size", value |-> NaN,
          window |-> win, output |-> out, oob |-> FALSE]
    ELSE LET w2 == ApplyWindow(audio_data, win)
             o2 == Dft(w2)
             mb == MaxBin(o2)
         IN  [ok |-> TRUE,
              error |-> "",
              value |-> BinToFrequency(PeakBin(o2, mb, garbage)),
              window |-> w2,
              output |-> o2,
              oob |-> ~((mb - 1) \in 0..(window_size \div 2))]

-----------------------------------------------------------------------------
(* compute_fft (tuner.cpp) *)

\* the loop over i = 0 .. num_samples/2 - 1 keeping the first strictly largest
\* magnitude; returns dominant_frequency = i * sampleRate / num_samples in cHz
RECURSIVE DominantLoop(_, _, _, _, _)
DominantLoop(out, i, num_samples, max_magnitude, dominant_frequency) ==
    IF i >= num_samples \div 2 THEN dominant_frequency
    ELSE IF Magnitude(out[i + 1]) > max_magnitude
         THEN DominantLoop(out, i + 1, num_samples, Magnitude(out[i + 1]),
                           (i * SAMPLE_RATE * 100) \div num_samples)
         ELSE DominantLoop(out, i + 1, num_samples, max_magnitude, dominant_frequency)

compute_fft(audio_data) ==
    DominantLoop(Dft(audio_data), 0, Len(audio_data), 0, 0)

-----------------------------------------------------------------------------
(* Note mapping *)

\* TuningConfig::note_names
note_names == <<"C", "C#", "D", "D#", "E", "F", "F#", "G", "G#", "A", "A#", "B">>

OctaveDigit == <<"0", "1", "2", "3", "4", "5", "6", "7">>

\* 440.0 * std::pow(2.0, (octave * 12 + note - 57) / 12.0) in cHz, indexed by
\* octave * 12 + note + 1, octave = 0..7, note = 0..11
NoteFreqTable == <<
    1635, 1732, 1835, 1945, 2060, 2183, 2312, 2450, 2596, 2750, 2914, 3087,
    3270, 3465, 3671, 3889, 4120, 4365, 4625, 4900, 5191, 5500, 5827, 6174,
    6541, 6930, 7342, 7778, 8241, 8731, 9250, 9800, 10383, 11000, 11654, 12347,
    13081, 13859, 14683, 15556, 16481, 17461, 18500, 19600, 20765, 22000, 23308, 24694,
    26163, 27718, 29366, 31113, 32963, 34923, 36999, 39200, 41530, 44000, 46616, 49388,
    52325, 55437, 58733, 62225, 65926, 69846, 73999, 78399, 83061, 88000, 93233, 98777,
    104650, 110873, 117466, 124451, 131851, 139691, 147998, 156798, 166122, 176000, 186466, 197553,
    209300, 221746, 234932, 248902, 263702, 279383, 295996, 313596, 332244, 352000, 372931, 395107
>>

note_freq(note, octave) == NoteFreqTable[octave * 12 + note + 1]

\* the range the lambda of find_closest_note is applied to: octaves 0..7 outer,
\* notes 0..11 inner, each element the pair (name, frequency)
ExtendNotes ==
    [i \in 1..96 |->
        [name |-> note_names[((i - 1) % 12) + 1] \o OctaveDigit[((i - 1) \div 12) + 1],
         freq |-> note_freq((i - 1) % 12, (i - 1) \div 12)]]

\* std::abs(a.second - frequency) for a finite table value and a double
Distance(target, frequency) == DAbs(DSub(Fin(target), frequency))

\* x < y on doubles (false when either is NaN)
DLess(x, y) ==
    CASE x.k = "nan" \/ y.k = "nan" -> FALSE
      [] x.k = "fin" /\ y.k = "fin" -> x.v < y.v
      [] x.k = "ninf" -> y.k # "ninf"
      [] y.k = "pinf" -> x.k # "pinf"
      [] OTHER -> FALSE

\* std::ranges::min_element: the first element no later one is strictly less than
RECURSIVE MinElement(_, _, _, _)
MinElement(notes, frequency, i, smallest) ==
    IF i > Len(notes) THEN smallest
    ELSE IF DLess(Distance(notes[i].freq, frequency),
                  Distance(notes[smallest].freq, frequency))
         THEN MinElement(notes, frequency, i + 1, i)
         ELSE MinElement(notes, frequency, i + 1, smallest)

\* GuitarTuner::find_closest_note
find_closest_note(frequency) ==
    ExtendNotes[MinElement(ExtendNotes, frequency, 2, 1)]

\* the table of closest_note_frequency, in cHz
TunerNotes == <<
    <<"C0", 1635>>, <<"C#0", 1732>>, <<"D0", 1835>>, <<"D#0", 1945>>,
    <<"E0", 2060>>, <<"F0", 2183>>, <<"F#0", 2312>>, <<"G0", 2450>>,
    <<"G#0", 2596>>, <<"A0", 2750>>, <<"A#0", 2914>>, <<"B0", 3087>>,
    <<"C1", 3270>>, <<"C#1", 3465>>, <<"D1", 3671>>, <<"D#1", 3889>>,
    <<"E1", 4120>>, <<"F1", 4365>>, <<"F#1", 4625>>, <<"G1", 4900>>,
    <<"G#1", 5191>>, <<"A1", 5500>>, <<"A#1", 5827>>, <<"B1", 6174>>,
    <<"C2", 6541>>, <<"C#2", 6930>>, <<"D2", 7342>>, <<"D#2", 7778>>,
    <<"E2", 8241>>, <<"F2", 8731>>, <<"F#2", 9250>>, <<"G2", 9800>>,
    <<"G#2", 10383>>, <<"A2", 11000>>, <<"A#2", 11654>>, <<"B2", 12347>>,
    <<"C3", 13081>>, <<"C#3", 13859>>, <<"D3", 14683>>, <<"D#3", 15556>>,
    <<"E3", 16481>>, <<"F3", 17461>>, <<"F#3", 18500>>, <<"G3", 19600>>,
    <<"G#3", 20765>>, <<"A3", 22000>>, <<"A#3", 23308>>, <<"B3", 24694>>,
    <<"C4", 26163>>, <<"C#4", 27718>>, <<"D4", 29366>>, <<"D#4", 31113>>,
    <<"E4", 32963>>, <<"F4", 34923>>, <<"F#4", 36999>>, <<"G4", 39200>>,
    <<"G#4", 41530>>, <<"A4", 44000>>, <<"A#4", 46616>>, <<"B4", 49388>>,
    <<"C5", 52325>>, <<"C#5", 55437>>, <<"D5", 58733>>, <<"D#5", 62225>>,
    <<"E5", 65925>>, <<"F5", 69846>>, <<"F#5", 73999>>, <<"G5", 78399>>,
    <<"G#5", 83061>>, <<"A5", 88000>>, <<"A#5", 93233>>, <<"B5", 98777>>,
    <<"C6", 104650>>, <<"C#6", 110873>>, <<"D6", 117466>>, <<"D#6", 124451>>,
    <<"E6", 131851>>, <<"F6", 139691>>, <<"F#6", 147998>>, <<"G6", 156798>>,
    <<"G#6", 166122>>, <<"A6", 176000>>, <<"A#6", 186466>>, <<"B6", 197553>>,
    <<"C7", 209300>>, <<"C#7", 221746>>, <<"D7", 234932>>, <<"D#7", 248902>>,
    <<"E7", 263702>>, <<"F7", 279383>>, <<"F#7", 295996>>, <<"G7", 313596>>,
    <<"G#7", 332244>>
>>

\* the loop of closest_note_frequency: min_difference starts at DBL_MAX, a
\* strictly smaller difference replaces the note
RECURSIVE ClosestLoop(_, _, _, _)
ClosestLoop(frequency, i, min_difference, closest_note) ==
    IF i > Len(TunerNotes) THEN closest_note
    ELSE LET difference == Abs(TunerNotes[i][2] - frequency)
         IN  IF min_difference < 0 \/ difference < min_difference
             THEN ClosestLoop(frequency, i + 1, difference, TunerNotes[i][1])
             ELSE ClosestLoop(frequency, i + 1, min_difference, closest_note)

\* closest_note_frequency (frequency in cHz; -1 stands for DBL_MAX)
closest_note_frequency(frequency) == ClosestLoop(frequency, 1, -1, "")

\* 1200 * std::log2(freq / target), in cents
Cents(freq, target) ==
    CASE freq.k = "nan" -> NaN
      [] freq.k = "pinf" -> PInf
      [] freq.k = "ninf" -> NaN
      [] freq.v < 0 -> NaN
      [] freq.v = 0 -> NInf
      [] OTHER -> Fin(TDiv(1200 * (Log2Q12(freq.v) - Log2Q12(target)), 4096))

-----------------------------------------------------------------------------
(* Inputs *)

ConstBlock(n, a) == [i \in 1..n |-> a]
\* one sample of amplitude a at (0-based) index p, silence elsewhere
Impulse(n, p, a) == [i \in 1..n |-> IF i = p + 1 THEN a ELSE 0]
\* a tone at a quarter of the sample rate: a, 0, -a, 0, ...
QuarterTone(n, a) ==
    [i \in 1..n |-> IF i % 4 = 1 THEN a ELSE IF i % 4 = 3 THEN -a ELSE 0]

\* sample blocks of length n: silence, 0.01, 0.02 and 1.0 constant, bursts of
\* 0.02 and 0.03, an impulse in the middle and a tone
TestBlocks(n) ==
    {ConstBlock(n, a) : a \in {0, MIN_AMPLITUDE, 2 * MIN_AMPLITUDE, One}}
        \cup {Impulse(n, 0, a) : a \in {2 * MIN_AMPLITUDE, 3 * MIN_AMPLITUDE}}
        \cup {Impulse(n, n \div 2, One), QuarterTone(n, One)}

\* the block lengths PortAudio may choose under paFramesPerBufferUnspecified
BlockLengths == {2, 4}

\* frequencies in cHz: every 25 Hz up to 4000 Hz
TestFrequencies == {2500 * i : i \in 1..160}

-----------------------------------------------------------------------------
(* The initial state: the objects as constructed, nothing acquired *)

NoCycle ==
    [input |-> <<>>, rms |-> 0, proceeded |-> FALSE, found |-> FALSE,
     shown |-> FALSE, frequency |-> NaN, note |-> ""]
NoDisplay == [frequency |-> NaN, note |-> "", target |-> 0, cents |-> NaN]
NoResult ==
    [ok |-> FALSE, error |-> "", value |-> NaN, note |-> "", target |-> 0, by |-> ""]

InitFor(programs) ==
    /\ program \in programs
    /\ pc = "initialize"
    /\ paInitialized = FALSE
    /\ streamOpen = FALSE
    /\ streamActive = FALSE
    /\ running = TRUE
    /\ exitCode = -1
    /\ paLog = <<>>
    /\ cbPc = "idle"
    /\ calls = 0
    /\ pushed = <<>>
    /\ emitted = <<>>
    /\ cycle = NoCycle
    /\ display = NoDisplay
    /\ displayWrites = 0
    /\ window = HannWindow
    /\ output = ZeroSpectrum
    /\ result = NoResult
    /\ oobRead = FALSE

Init == InitFor({"extend", "tuner"})

mainVars == <<pc, paInitialized, streamOpen, streamActive, running, exitCode, paLog>>
callbackVars == <<cbPc, calls, pushed, emitted, cycle, window, output, result, oobRead>>
displayVars == <<display, displayWrites>>

-----------------------------------------------------------------------------
(* extend.cpp: GuitarTuner::run and main *)

\* Pa_Initialize; on failure run returns the error and main returns 1
ExtInitialize ==
    /\ program = "extend" /\ pc = "initialize"
    /\ \E ok \in BOOLEAN :
         IF ok
         THEN /\ paInitialized' = TRUE
              /\ paLog' = Append(paLog, "Pa_Initialize")
              /\ pc' = "open"
              /\ exitCode' = exitCode
         ELSE /\ pc' = "done"
              /\ exitCode' = 1
              /\ UNCHANGED <<paInitialized, paLog>>
    /\ UNCHANGED <<program, streamOpen, streamActive, running>>
    /\ UNCHANGED <<callbackVars, displayVars>>

\* Pa_OpenDefaultStream; on failure the guard "cleanup" runs Pa_Terminate
ExtOpenStream ==
    /\ program = "extend" /\ pc = "open"
    /\ \E ok \in BOOLEAN :
         IF ok
         THEN /\ streamOpen' = TRUE
              /\ paLog' = Append(paLog, "Pa_OpenDefaultStream")
              /\ pc' = "start"
              /\ UNCHANGED <<paInitialized, exitCode>>
         ELSE /\ paInitialized' = FALSE
              /\ paLog' = Append(paLog, "Pa_Terminate")
              /\ pc' = "done"
              /\ exitCode' = 1
              /\ streamOpen' = streamOpen
    /\ UNCHANGED <<program, streamActive, running>>
    /\ UNCHANGED <<callbackVars, displayVars>>

\* Pa_StartStream; on failure the guards run Pa_CloseStream, then Pa_Terminate
ExtStartStream ==
    /\ program = "extend" /\ pc = "start"
    /\ \E ok \in BOOLEAN :
         IF ok
         THEN /\ streamActive' = TRUE
              /\ paLog' = Append(paLog, "Pa_StartStream")
              /\ pc' = "loop"
              /\ UNCHANGED <<paInitialized, streamOpen, exitCode>>
         ELSE /\ streamOpen' = FALSE
              /\ paInitialized' = FALSE
              /\ paLog' = paLog \o <<"Pa_CloseStream", "Pa_Terminate">>
              /\ pc' = "done"
              /\ exitCode' = 1
              /\ streamActive' = streamActive
    /\ UNCHANGED <<program, running>>
    /\ UNCHANGED <<callbackVars, displayVars>>

\* one iteration of "while (running)": getch, 'q' or 'Q' clears running, sleep 50 ms
ExtRunLoop ==
    /\ program = "extend" /\ pc = "loop" /\ running
    /\ \E ch \in {"q", "Q", "x", "ERR"} :
         running' = ~(ch = "q" \/ ch = "Q")
    /\ UNCHANGED <<program, pc, paInitialized, streamOpen, streamActive, exitCode, paLog>>
    /\ UNCHANGED <<callbackVars, displayVars>>

\* the loop ends, run returns: the guards run Pa_CloseStream, then Pa_Terminate
ExtReturn ==
    /\ program = "extend" /\ pc = "loop" /\ ~running
    /\ streamActive' = FALSE
    /\ streamOpen' = FALSE
    /\ paInitialized' = FALSE
    /\ paLog' = paLog \o <<"Pa_CloseStream", "Pa_Terminate">>
    /\ pc' = "done"
    /\ exitCode' = 0
    /\ UNCHANGED <<program, running>>
    /\ UNCHANGED <<callbackVars, displayVars>>

-----------------------------------------------------------------------------
(* extend.cpp: the audio callback *)

\* AudioBuffer(size) followed by from_float_buffer(input), Len(input) <= size
FromFloatBuffer(size, input) ==
    [i \in 1..size |-> IF i <= Len(input) THEN input[i] ELSE 0]

RECURSIVE SumSquares(_, _)
SumSquares(input, i) ==
    IF i > Len(input) THEN 0 ELSE input[i] * input[i] + SumSquares(input, i + 1)

\* std::sqrt(transform_reduce(x * x) / input.size())
Rms(input) == ISqrt(SumSquares(input, 1) \div Len(input))

GateOpenInclusive(rms) == rms >= MIN_AMPLITUDE

\* if (rms > MIN_AMPLITUDE)
GateOpen(rms) == rms > MIN_AMPLITUDE

\* GuitarTuner::process_audio, called with frames_per_buffer = BUFFER_SIZE
ProcessAudio ==
    /\ program = "extend" /\ streamActive /\ exitCode = -1
    /\ calls < MaxCallbacks
    /\ \E input \in TestBlocks(BUFFER_SIZE), garbage \in GarbageDoubles :
         LET buffer == FromFloatBuffer(BUFFER_SIZE, input)
             rms    == Rms(input)
             r      == Analyze(buffer, window, output, garbage)
             match  == find_closest_note(r.value)
             cents  == Cents(r.value, match.freq)
             show   == GateOpen(rms) /\ r.ok
         IN  /\ pushed' = pushed \o input
             /\ emitted' = Append(emitted, buffer)
             /\ window' = IF GateOpen(rms) THEN r.window ELSE window
             /\ output' = IF GateOpen(rms) THEN r.output ELSE output
             /\ oobRead' = IF GateOpen(rms) THEN r.oob ELSE oobRead
             /\ result' = IF GateOpen(rms)
                          THEN [ok |-> r.ok, error |-> r.error, value |-> r.value,
                                note |-> "", target |-> 0, by |-> "analyze"]
                          ELSE result
             /\ cycle' = [input |-> input, rms |-> rms,
                          proceeded |-> GateOpen(rms),
                          found |-> show, shown |-> show,
                          frequency |-> IF show THEN r.value ELSE NaN,
                          note |-> IF show THEN match.name ELSE ""]
             /\ display' = IF show
                           THEN [frequency |-> r.value, note |-> match.name,
                                 target |-> match.freq, cents |-> cents]
                           ELSE display
             /\ displayWrites' = IF show THEN displayWrites + 1 ELSE displayWrites
    /\ calls' = calls + 1
    /\ UNCHANGED <<program, cbPc, mainVars>>

-----------------------------------------------------------------------------
(* tuner.cpp: main *)

\* a PortAudio call of main failed: the message is printed and main returns 1
TunReturnError ==
    /\ pc' = "done"
    /\ exitCode' = 1
    /\ UNCHANGED <<paInitialized, streamOpen, streamActive, paLog>>

\* Pa_Initialize
TunInitialize ==
    /\ program = "tuner" /\ pc = "initialize"
    /\ \E ok \in BOOLEAN :
         IF ok
         THEN /\ paInitialized' = TRUE
              /\ paLog' = Append(paLog, "Pa_Initialize")
              /\ pc' = "open"
              /\ UNCHANGED <<streamOpen, streamActive, exitCode>>
         ELSE TunReturnError
    /\ UNCHANGED <<program, running, callbackVars, displayVars>>

\* Pa_OpenDefaultStream
TunOpenStream ==
    /\ program = "tuner" /\ pc = "open"
    /\ \E ok \in BOOLEAN :
         IF ok
         THEN /\ streamOpen' = TRUE
              /\ paLog' = Append(paLog, "Pa_OpenDefaultStream")
              /\ pc' = "start"
              /\ UNCHANGED <<paInitialized, streamActive, exitCode>>
         ELSE TunReturnError
    /\ UNCHANGED <<program, running, callbackVars, displayVars>>

\* Pa_StartStream
TunStartStream ==
    /\ program = "tuner" /\ pc = "start"
    /\ \E ok \in BOOLEAN :
         IF ok
         THEN /\ streamActive' = TRUE
              /\ paLog' = Append(paLog, "Pa_StartStream")
              /\ pc' = "banner1"
              /\ UNCHANGED <<paInitialized, streamOpen, exitCode>>
         ELSE TunReturnError
    /\ UNCHANGED <<program, running, callbackVars, displayVars>>

\* the three std::cout statements of main that follow Pa_StartStream
TunBanner ==
    /\ program = "tuner" /\ pc \in {"banner1", "banner2", "banner3"}
    /\ pc' = CASE pc = "banner1" -> "banner2"
               [] pc = "banner2" -> "banner3"
               [] OTHER -> "wait"
    /\ displayWrites' = displayWrites + 1
    /\ UNCHANGED <<program, paInitialized, streamOpen, streamActive, running,
                   exitCode, paLog, display, callbackVars>>

\* std::cin.ignore() returns: Enter was pressed
TunWaitEnter ==
    /\ program = "tuner" /\ pc = "wait"
    /\ pc' = "stop"
    /\ UNCHANGED <<program, paInitialized, streamOpen, streamActive, running,
                   exitCode, paLog, callbackVars, displayVars>>

\* Pa_StopStream: waits for a running callback to return
TunStopStream ==
    /\ program = "tuner" /\ pc = "stop" /\ cbPc = "idle"
    /\ \E ok \in BOOLEAN :
         IF ok
         THEN /\ streamActive' = FALSE
              /\ paLog' = Append(paLog, "Pa_StopStream")
              /\ pc' = "close"
              /\ UNCHANGED <<paInitialized, streamOpen, exitCode>>
         ELSE TunReturnError
    /\ UNCHANGED <<program, running, callbackVars, displayVars>>

\* Pa_CloseStream
TunCloseStream ==
    /\ program = "tuner" /\ pc = "close"
    /\ \E ok \in BOOLEAN :
         IF ok
         THEN /\ streamOpen' = FALSE
              /\ paLog' = Append(paLog, "Pa_CloseStream")
              /\ pc' = "terminate"
              /\ UNCHANGED <<paInitialized, streamActive, exitCode>>
         ELSE TunReturnError
    /\ UNCHANGED <<program, running, callbackVars, displayVars>>

\* Pa_Terminate, then return 0
TunTerminate ==
    /\ program = "tuner" /\ pc = "terminate"
    /\ \E ok \in BOOLEAN :
         IF ok
         THEN /\ paInitialized' = FALSE
              /\ paLog' = Append(paLog, "Pa_Terminate")
              /\ pc' = "done"
              /\ exitCode' = 0
              /\ UNCHANGED <<streamOpen, streamActive>>
         ELSE TunReturnError
    /\ UNCHANGED <<program, running, callbackVars, displayVars>>

-----------------------------------------------------------------------------
(* tuner.cpp: the audio callback *)

\* process_audio_input up to the first statement of print_detection_results:
\* the copy, compute_fft, closest_note_frequency, "Detected Frequency: ..."
TunerCallback ==
    /\ program = "tuner" /\ streamActive /\ exitCode = -1 /\ cbPc = "idle"
    /\ calls < MaxCallbacks
    /\ \E n \in BlockLengths : \E input \in TestBlocks(n) :
         LET audio_data   == [i \in 1..n |-> input[i]]
             frequency    == compute_fft(audio_data)
             closest_note == closest_note_frequency(frequency)
         IN  /\ pushed' = pushed \o input
             /\ emitted' = Append(emitted, audio_data)
             /\ cycle' = [input |-> input, rms |-> Rms(input), proceeded |-> TRUE,
                          found |-> frequency > 0, shown |-> TRUE,
                          frequency |-> Fin(frequency), note |-> closest_note]
             /\ display' = [display EXCEPT !.frequency = Fin(frequency)]
    /\ displayWrites' = displayWrites + 1
    /\ cbPc' = "print_note"
    /\ calls' = calls + 1
    /\ UNCHANGED <<program, mainVars, window, output, result, oobRead>>

\* the second statement of print_detection_results, "Closest Note: ...", and
\* the return of the callback
TunerCallbackPrintNote ==
    /\ program = "tuner" /\ cbPc = "print_note"
    /\ display' = [display EXCEPT !.note = cycle.note]
    /\ displayWrites' = displayWrites + 1
    /\ cbPc' = "idle"
    /\ UNCHANGED <<program, mainVars, calls, pushed, emitted, cycle, window,
                   output, result, oobRead>>

-----------------------------------------------------------------------------
(* The two programs *)

Next ==
    \/ ExtInitialize
    \/ ExtOpenStream
    \/ ExtStartStream
    \/ ExtRunLoop
    \/ ExtReturn
    \/ ProcessAudio
    \/ TunInitialize
    \/ TunOpenStream
    \/ TunStartStream
    \/ TunBanner
    \/ TunWaitEnter
    \/ TunStopStream
    \/ TunCloseStream
    \/ TunTerminate
    \/ TunerCallback
    \/ TunerCallbackPrintNote

Spec == Init /\ [][Next]_vars

-----------------------------------------------------------------------------
(* FFTAnalyzer driven directly: a sequence of analyze calls on one analyzer *)

\* windows of the right length, among them tones of half amplitude and impulses
\* off the middle, and one block of the callback's length
TestWindows ==
    TestBlocks(window_size)
        \cup {QuarterTone(window_size, One \div 2), Impulse(window_size, 3, One),
              Impulse(window_size, 2, One \div 2)}
        \cup {ConstBlock(BUFFER_SIZE, One)}

InitAnalyzer == InitFor({"analyzer"})

AnalyzeCall ==
    /\ program = "analyzer" /\ calls < MaxCalls
    /\ \E audio_data \in TestWindows, garbage \in GarbageDoubles :
         \E r \in {Analyze(audio_data, window, output, garbage)} :
             /\ window' = r.window
             /\ output' = r.output
             /\ oobRead' = r.oob
             /\ result' = [ok |-> r.ok, error |-> r.error, value |-> r.value,
                           note |-> "", target |-> 0, by |-> "analyze"]
             /\ cycle' = [NoCycle EXCEPT !.input = audio_data,
                                         !.proceeded = TRUE, !.found = r.ok]
    /\ calls' = calls + 1
    /\ UNCHANGED <<program, mainVars, cbPc, pushed, emitted, displayVars>>

NextAnalyzer == AnalyzeCall

SpecAnalyzer == InitAnalyzer /\ [][NextAnalyzer]_vars

-----------------------------------------------------------------------------
(* The note mappers driven directly *)

InitMapper == InitFor({"mapper"})

mapperFrame ==
    /\ calls' = calls + 1
    /\ UNCHANGED <<program, mainVars, cbPc, pushed, emitted, cycle, window,
                output, oobRead, displayVars>>

\* find_closest_note(frequency)
MapExtend ==
    /\ program = "mapper" /\ calls = 0
    /\ \E frequency \in TestFrequencies :
         LET match == find_closest_note(Fin(frequency))
         IN  result' = [ok |-> TRUE, error |-> "", value |-> Fin(frequency),
                        note |-> match.name, target |-> match.freq,
                        by |-> "find_closest_note"]
    /\ mapperFrame

\* closest_note_frequency(frequency)
MapTuner ==
    /\ program = "mapper" /\ calls = 0
    /\ \E frequency \in TestFrequencies :
         result' = [ok |-> TRUE, error |-> "", value |-> Fin(frequency),
                    note |-> closest_note_frequency(frequency),
                    target |-> 0, by |-> "closest_note_frequency"]
    /\ mapperFrame

NextMapper == MapExtend \/ MapTuner

SpecMapper == InitMapper /\ [][NextMapper]_vars

-----------------------------------------------------------------------------
(* Properties *)

RECURSIVE Flatten(_)
Flatten(blocks) ==
    IF blocks = <<>> THEN <<>> ELSE Head(blocks) \o Flatten(Tail(blocks))

\* mean(sample^2) > MIN_AMPLITUDE^2, without a square root or a division
RmsAboveThreshold(input) ==
    SumSquares(input, 1) > MIN_AMPLITUDE * MIN_AMPLITUDE * Len(input)

\* C1: whenever the samples delivered to the callbacks of extend.cpp add up to
\* k * window_size, exactly k buffers have been handed on, each of window_size
\* samples, and together they are the delivered samples in order.
C1_WindowsOfLengthN ==
    (program = "extend" /\ Len(pushed) % window_size = 0) =>
        /\ Len(emitted) = Len(pushed) \div window_size
        /\ \A i \in 1..Len(emitted) : Len(emitted[i]) = window_size
        /\ Flatten(emitted) = pushed

\* C2: a callback writes a result to the display only if the window's rms
\* exceeds MIN_AMPLITUDE and the analysis produced a frequency.
C2_EmitOnlyWhenAcceptedAndFound ==
    cycle.shown => (RmsAboveThreshold(cycle.input) /\ cycle.found)

\* C3: analyze leaves the Hann coefficients as constructed, and what it returns
\* for a window is what a freshly constructed analyzer returns for it.
C3_AnalyzeKeepsHannWindow ==
    program = "analyzer" =>
        /\ window = HannWindow
        /\ (calls > 0 /\ result.ok) =>
              \E g \in GarbageDoubles :
                  result.value = Analyze(cycle.input, HannWindow, ZeroSpectrum, g).value

\* C4: in extend.cpp the analysis proceeds for a callback block iff its rms is
\* strictly above MIN_AMPLITUDE; silence is rejected, constant 1.0 is accepted.
C4_GateIffRmsAboveThreshold ==
    (program = "extend" /\ calls > 0) =>
        /\ cycle.proceeded <=> RmsAboveThreshold(cycle.input)
        /\ cycle.input = ConstBlock(BUFFER_SIZE, 0) => ~cycle.proceeded
        /\ cycle.input = ConstBlock(BUFFER_SIZE, One) => cycle.proceeded

\* a callback of extend.cpp let a block pass whose rms lies between 0.01 and
\* 0.02, and analyze was called for it
C4_Witness ==
    /\ program = "extend" /\ calls > 0
    /\ cycle.proceeded
    /\ cycle.rms > MIN_AMPLITUDE /\ cycle.rms < 2 * MIN_AMPLITUDE
    /\ result.by = "analyze"

\* the bins 1 .. window_size/2 - 1 all have magnitude zero
NoPositiveBin(out) ==
    \A b \in 1..(window_size \div 2 - 1) : Magnitude(out[b + 1]) = 0

\* C5: after analyze ran on a window none of whose bins 1..N/2-1 is positive,
\* the result is absent and no bin outside 0..N/2 was read; a frequency that
\* is returned is a positive real number.
C5_AbsentWhenNoPeak ==
    (program = "analyzer" /\ calls > 0 /\ Len(cycle.input) = window_size) =>
        /\ NoPositiveBin(output) => (~result.ok /\ ~oobRead)
        /\ result.ok => (IsFin(result.value) /\ result.value.v > 0)

\* the first bin of 1 .. window_size/2 - 1 with the largest magnitude
LargestBin(out) ==
    CHOOSE b \in 1..(window_size \div 2 - 1) :
        /\ \A c \in 1..(window_size \div 2 - 1) :
              Magnitude(out[c + 1]) <= Magnitude(out[b + 1])
        /\ \A c \in 1..(b - 1) : Magnitude(out[c + 1]) < Magnitude(out[b + 1])

\* the largest bin and its two neighbours have the same positive magnitude
FlatNeighbourhood(out) ==
    LET b == LargestBin(out)
    IN  /\ Magnitude(out[b + 1]) > 0
        /\ Magnitude(out[b]) = Magnitude(out[b + 1])
        /\ Magnitude(out[b + 2]) = Magnitude(out[b + 1])

\* C6: after analyze ran on a window whose largest bin has a flat
\* neighbourhood, the result is the unrefined frequency max_bin * 44100 / N.
C6_FlatNeighbourhoodFallsBack ==
    (program = "analyzer" /\ calls > 0 /\ Len(cycle.input) = window_size
        /\ FlatNeighbourhood(output)) =>
        /\ result.ok
        /\ result.value = Fin((LargestBin(output) * SAMPLE_RATE * 100) \div window_size)

\* the equal-tempered notes of octaves 0..7 nearest to frequency (cHz)
NearestNotes(frequency) ==
    {i \in 1..96 :
        \A j \in 1..96 :
            Abs(NoteFreqTable[i] - frequency) <= Abs(NoteFreqTable[j] - frequency)}

\* C7: for a positive frequency either mapper returns the name of the note,
\* among the 12 notes of octaves 0..7, nearest to it, the lower of two
\* equidistant ones (and find_closest_note its frequency with it).
C7_MapperReturnsNearestNote ==
    (program = "mapper" /\ calls > 0) =>
        LET best == CHOOSE i \in NearestNotes(result.value.v) :
                        \A j \in NearestNotes(result.value.v) : i <= j
        IN  /\ result.note = ExtendNotes[best].name
            /\ result.by = "find_closest_note" => result.target = NoteFreqTable[best]

\* position of the first occurrence of call in log, 0 if there is none
RECURSIVE IndexOf(_, _, _)
IndexOf(log, call, i) ==
    IF i > Len(log) THEN 0
    ELSE IF log[i] = call THEN i ELSE IndexOf(log, call, i + 1)

\* C8: when the process has exited, an opened stream has been closed and an
\* initialized library terminated, the stream closed before the termination.
C8_ReleasedOnEveryExit ==
    exitCode # -1 =>
        /\ ~streamOpen
        /\ ~paInitialized
        /\ IndexOf(paLog, "Pa_CloseStream", 1) <= IndexOf(paLog, "Pa_Terminate", 1)

\* C9: no callback writes to the display.
C9_CallbackWritesNoDisplay ==
    ~cycle.shown /\ cbPc = "idle"

-----------------------------------------------------------------------------
(* What holds of extend.cpp alone (tuner.cpp is what breaks C2, C7 and C8) *)

\* GuitarTuner::process_audio reaches display.update only behind both tests
ExtendEmitsOnlyWhenAcceptedAndFound ==
    program = "extend" => C2_EmitOnlyWhenAcceptedAndFound

\* GuitarTuner::find_closest_note returns the nearest pair, the lower on a tie
ExtendMapperReturnsNearestNote ==
    result.by = "find_closest_note" => C7_MapperReturnsNearestNote

\* the scope guards of GuitarTuner::run release what was acquired
ExtendReleasedOnEveryExit ==
    program = "extend" => C8_ReleasedOnEveryExit

-----------------------------------------------------------------------------
(* The size mismatch of extend.cpp *)

\* C11: in extend.cpp every callback hands on a buffer of BUFFER_SIZE samples,
\* every call of analyze made by a callback returns the error "Invalid audio
\* buffer size" and leaves the analyzer untouched, and TunerDisplay::update is
\* never called, whatever the blocks were.
C11_AnalyzeRejectsEveryCallback ==
    program = "extend" =>
        /\ \A i \in 1..Len(emitted) : Len(emitted[i]) = BUFFER_SIZE
        /\ (calls > 0 /\ cycle.proceeded) =>
              /\ result.by = "analyze"
              /\ ~result.ok
              /\ result.error = "Invalid audio buffer size"
        /\ window = HannWindow /\ output = ZeroSpectrum
        /\ ~cycle.shown
        /\ displayWrites = 0 /\ display = NoDisplay

\* two callbacks of extend.cpp, the last one at full scale, passed the gate,
\* analyze returned the error and the display was not written
C11_Witness ==
    /\ program = "extend" /\ calls = 2
    /\ cycle.input = ConstBlock(BUFFER_SIZE, One)
    /\ cycle.proceeded
    /\ result.by = "analyze" /\ ~result.ok
    /\ displayWrites = 0

=============================================================================
